---- MODULE Spec2Model ----
(***************************************************************************)
(* Model of the compile-fail test harness: the expectation parser          *)
(* (src/parse.rs), the matcher (src/runner.rs, Pattern::matches) and the   *)
(* diagnostic normalizer (src/json.rs).                                    *)
(*                                                                         *)
(* Strings are sequences of one-character strings, so that find, trim,     *)
(* take_while, contains and slicing are computed as the code computes      *)
(* them.  Option<T> is a sequence of length at most one: None == <<>>,     *)
(* Some(x) == <<x>>.                                                       *)
(***************************************************************************)
EXTENDS Integers, Sequences, FiniteSets, TLC

VARIABLES
    content,                \* parse.rs: text of the fixture file, split in lines
    lineno,                 \* Parser::parse: number of lines consumed so far
    expected_msgs,          \* Parser.expected_msgs
    last_line_with_pattern, \* Parser.last_line_with_pattern
    ppc,                    \* position of TestExpectation::parse
    perr,                   \* Option: the error TestExpectation::parse returned
    pat,                    \* Pattern::matches: self
    msg,                    \* Pattern::matches: msg
    matched,                \* Option: what Pattern::matches returned
    expected,               \* compare_messages: expected
    got,                    \* compare_messages: got
    verdict,                \* Option: what compare_messages returned
    output,                 \* parse_output: the lines of the compiler's stderr
    folded,                 \* parse_output: number of lines folded so far
    state,                  \* parse_output: the accumulator of the fold
    normalized,             \* Option: what parse_output returned
    decoded,                \* json.rs parse_line: Option of the decoded diagnostic
    work,                   \* push_expected_errors: the calls still to be made
    expected_errors,        \* json.rs parse_line: expected_errors
    call,                   \* push_expected_errors: Option of the call made last
    tests,                  \* parse_and_run: the compile-fail tests it is given
    no_console_output,      \* Config.no_console_output
    rpc,                    \* parse_and_run / runner::run: where the run is
    parsed,                 \* parse_and_run: the expectations collected so far
    status,                 \* runner::run: Option of the TestStatus
    passed_on,              \* runner::run: number of tests the loop is through with
    test_result,            \* runner::run: Option of what run_test returned
    ran,                    \* the tests run_test was called on, in order
    unwinding,              \* std::thread::panicking()
    returned,               \* Option of what parse_and_run returned
    cfail_path,             \* find_tests: Option of the entries of config.cfail_path
    visited,                \* find_tests: number of entries the loop has taken
    found,                  \* find_tests: tests
    fpc,                    \* find_tests: where it is
    find_returned           \* Option of what find_tests returned

pvars == <<content, lineno, expected_msgs, last_line_with_pattern, ppc, perr>>
mvars == <<pat, msg, matched>>
cvars == <<expected, got, verdict>>
ovars == <<output, folded, state, normalized>>
fvars == <<decoded, work, expected_errors, call>>
rvars == <<tests, no_console_output, rpc, parsed, status, passed_on, test_result,
           ran, unwinding, returned>>
dvars == <<cfail_path, visited, found, fpc, find_returned>>
xvars == <<fvars, rvars, dvars>>

vars == <<pvars, mvars, cvars, ovars, xvars>>

----------------------------------------------------------------------------
(* Bounds *)

MaxLines == 3       \* lines in a fixture
MaxLineNum == 2     \* line numbers of the patterns and messages that are compared
MaxExpected == 2    \* patterns handed to compare_messages
MaxGot == 2         \* messages handed to compare_messages
MaxStream == 3      \* lines in the compiler's stderr

----------------------------------------------------------------------------
(* Option *)

None == <<>>
Some(x) == <<x>>

----------------------------------------------------------------------------
(* str helpers *)

UpperCase == <<"A","B","C","D","E","F","G","H","I","J","K","L","M",
               "N","O","P","Q","R","S","T","U","V","W","X","Y","Z">>
LowerCase == <<"a","b","c","d","e","f","g","h","i","j","k","l","m",
               "n","o","p","q","r","s","t","u","v","w","x","y","z">>

Range(s) == {s[i] : i \in 1..Len(s)}

\* char::is_alphabetic
Alphabetic == Range(UpperCase) \cup Range(LowerCase)

\* char::is_whitespace
Whitespace == {" "}

\* char::to_lowercase
LowerChar(c) ==
    IF c \in Range(UpperCase)
    THEN LowerCase[CHOOSE i \in 1..26 : UpperCase[i] = c]
    ELSE c

\* str::to_lowercase
ToLowercase(s) == [i \in 1..Len(s) |-> LowerChar(s[i])]

\* s[i..] with a 0-based byte offset i <= len
SliceFrom(s, i) == SubSeq(s, i + 1, Len(s))

\* does t occur in s at 0-based offset i
OccursAt(s, t, i) ==
    /\ i + Len(t) <= Len(s)
    /\ \A j \in 1..Len(t) : s[i + j] = t[j]

\* str::find: Option of the first 0-based offset of t in s
Find(s, t) ==
    IF \E i \in 0..Len(s) : OccursAt(s, t, i)
    THEN Some(CHOOSE i \in 0..Len(s) :
                 /\ OccursAt(s, t, i)
                 /\ \A k \in 0..(i - 1) : ~OccursAt(s, t, k))
    ELSE None

\* str::contains
Contains(s, t) == \E i \in 0..Len(s) : OccursAt(s, t, i)

\* chars().take_while(|c| c in set).count()
TakeWhileCount(s, set) ==
    CHOOSE n \in 0..Len(s) :
        /\ \A i \in 1..n : s[i] \in set
        /\ (n = Len(s) \/ s[n + 1] \notin set)

\* chars().take_while(|c| c != stop).count()
TakeUntilCount(s, stop) ==
    CHOOSE n \in 0..Len(s) :
        /\ \A i \in 1..n : s[i] # stop
        /\ (n = Len(s) \/ s[n + 1] = stop)

\* str::trim_left
TrimLeft(s) == SliceFrom(s, TakeWhileCount(s, Whitespace))

\* str::trim (both ends); used only to state what the code is compared with
TrimRight(s) ==
    LET n == CHOOSE k \in 0..Len(s) :
                 /\ \A i \in (k + 1)..Len(s) : s[i] \in Whitespace
                 /\ (k = 0 \/ s[k] \notin Whitespace)
    IN SubSeq(s, 1, n)
Trim(s) == TrimRight(TrimLeft(s))

----------------------------------------------------------------------------
(* parse.rs: MessageKind *)

MessageKind == {"Error", "Warning", "Note", "Help", "Suggestion"}

\* <MessageKind as FromStr>::from_str; Err(()) is None
FromStr(s) ==
    LET l == ToLowercase(s) IN
    CASE l = <<"e","r","r","o","r">> -> Some("Error")
      [] l = <<"w","a","r","n","i","n","g">> -> Some("Warning")
      [] l = <<"w","a","r","n">> -> Some("Warning")
      [] l = <<"n","o","t","e">> -> Some("Note")
      [] l = <<"h","e","l","p">> -> Some("Help")
      [] l = <<"s","u","g","g","e","s","t","i","o","n">> -> Some("Suggestion")
      [] OTHER -> None

\* Matcher::Code / Matcher::Msg
Code(c) == [tag |-> "Code", val |-> c]
Msg(m) == [tag |-> "Msg", val |-> m]

\* struct Pattern
Pattern(kind, matcher, line_num) ==
    [kind |-> kind, matcher |-> matcher, line_num |-> line_num]

----------------------------------------------------------------------------
(* parse.rs: errors.  A Box<Error> made from format!(..) is the format     *)
(* string together with its arguments: the line number when the format     *)
(* has an "in line {}" and the quoted text when it has one.  The quote     *)
(* characters of the format strings are left out of the strings below.     *)

ParseError(fmt, line, text) == [fmt |-> fmt, line |-> line, text |-> text]

ErrContinuation(n) ==
    ParseError("in line {}: a //~| pattern must be directly preceded by another pattern",
               Some(n), None)
ErrOffset(n) ==
    ParseError("in line {}: invalid line offset before line 1", Some(n), None)
ErrKind(kind_str) ==
    ParseError("{} is an invalid message kind", None, Some(kind_str))
ErrEmpty(n) ==
    ParseError("in line {}: error patterns may not be empty", Some(n), None)
ErrExpected ==
    ParseError("expected : <message> or [Exxxx]", None, None)
ErrUnconsumed(rest) ==
    ParseError("unconsumed input in pattern: {}", None, Some(rest))
ErrNoPatterns ==
    ParseError("no error patterns found in {}", None, None)
ErrIo ==
    ParseError("io::Error", None, None)

Ok(v) == [tag |-> "Ok", val |-> v]
Err(e) == [tag |-> "Err", val |-> e]
Panic == [tag |-> "Panic", val |-> None]

----------------------------------------------------------------------------
(* parse.rs: Parser *)

\* const START in Parser::parse_line
START == <<"/", "/", "~">>

\* str::lines: split at "\n"; a final line terminator adds no empty line
RECURSIVE Lines(_)
Lines(s) ==
    IF s = <<>> THEN <<>>
    ELSE LET n == TakeUntilCount(s, "\n") IN
         <<SubSeq(s, 1, n)>> \o
             (IF n = Len(s) THEN <<>> ELSE Lines(SliceFrom(s, n + 1)))

\* usize::checked_sub
CheckedSub(a, b) == IF a >= b THEN Some(a - b) ELSE None

\* mutant: any earlier pattern-bearing line lets a continuation through
ContinuationOk_AnyEarlier(last, n) == last # 0

\* parse_pattern, the condition of line 176: the last line must contain a pattern
ContinuationOk(last, n) == last # 0 /\ last = n - 1

\* mutant: a target line of 0 is let through
CaretTarget_AcceptsZero(pattern, n) ==
    LET offset == TakeWhileCount(pattern, {"^"})
        t == CheckedSub(n, offset)
    IN IF t # None /\ t[1] >= 0 THEN Ok(t[1]) ELSE Err(ErrOffset(n))

\* parse_pattern, lines 186-198: the target line of a marker with its carets
CaretTarget(pattern, n) ==
    LET offset == TakeWhileCount(pattern, {"^"})
        t == CheckedSub(n, offset)
    IN IF t # None /\ t[1] > 0 THEN Ok(t[1]) ELSE Err(ErrOffset(n))

\* mutant: the message is trimmed at both ends
MsgMatcher_TrimsBoth(chars, n) ==
    LET message == Trim(chars) IN
    IF message = <<>> THEN Err(ErrEmpty(n)) ELSE Ok(Msg(message))

\* parse_pattern, lines 214-222: the `: <message>` form; chars is what follows the colon
MsgMatcher(chars, n) ==
    LET message == TrimLeft(chars) IN
    IF message = <<>> THEN Err(ErrEmpty(n)) ELSE Ok(Msg(message))

\* mutant: what follows the closing bracket is not looked at
CodeMatcher_IgnoresRest(pattern) ==
    LET clen == TakeUntilCount(SliceFrom(pattern, 1), "]")
        code == SubSeq(pattern, 2, clen + 1)
    IN IF clen + 2 > Len(pattern) THEN Panic ELSE Ok(Code(code))

\* parse_pattern, lines 223-234: the `[<code>]` form; pattern starts with "["
CodeMatcher(pattern) ==
    LET clen == TakeUntilCount(SliceFrom(pattern, 1), "]")
        code == SubSeq(pattern, 2, clen + 1)
    IN IF clen + 2 > Len(pattern) THEN Panic    \* slice index starts past the end
       ELSE LET rest == SliceFrom(pattern, clen + 2) IN
            IF rest # <<>> THEN Err(ErrUnconsumed(rest)) ELSE Ok(Code(code))

\* parse_pattern, lines 201-241: kind and matcher, after the target line is known
KindAndMatcher(pattern, n, target_line) ==
    LET p1 == TrimLeft(pattern)
        klen == TakeWhileCount(p1, Alphabetic)
        kind_str == SubSeq(p1, 1, klen)
        kind == FromStr(kind_str)
        p2 == SliceFrom(p1, klen)
        m == IF p2 # <<>> /\ p2[1] = ":" THEN MsgMatcher(SliceFrom(p2, 1), n)
             ELSE IF p2 # <<>> /\ p2[1] = "[" THEN CodeMatcher(p2)
             ELSE Err(ErrExpected)
    IN IF kind = None THEN Err(ErrKind(kind_str))
       ELSE IF m.tag = "Ok" THEN Ok(Pattern(kind, m.val, target_line))
       ELSE m

\* Parser::parse_pattern; msgs and last are self.expected_msgs and
\* self.last_line_with_pattern
ParsePattern(msgs, last, pattern, n) ==
    IF pattern # <<>> /\ pattern[1] = "|"
    THEN IF ContinuationOk(last, n)
         THEN KindAndMatcher(SliceFrom(pattern, 1), n, msgs[Len(msgs)].line_num)
         ELSE Err(ErrContinuation(n))
    ELSE LET t == CaretTarget(pattern, n) IN
         IF t.tag = "Ok"
         THEN KindAndMatcher(SliceFrom(pattern, TakeWhileCount(pattern, {"^"})), n, t.val)
         ELSE t

\* Parser::parse_line: Ok(Some(pattern)), Ok(None), Err(e), or a panic
ParseLine(msgs, last, n, line) ==
    LET start == Find(line, START) IN
    IF start # None
    THEN LET r == ParsePattern(msgs, last, SliceFrom(line, start[1] + Len(START)), n) IN
         IF r.tag = "Ok" THEN Ok(Some(r.val)) ELSE r
    ELSE Ok(None)

\* mutant: the pattern list is returned unchecked
Expectation_Unchecked(patterns) == Ok(patterns)

\* TestExpectation::parse, lines 113-119: the check on the parsed patterns
Expectation(patterns) ==
    IF patterns = <<>> THEN Err(ErrNoPatterns) ELSE Ok(patterns)

----------------------------------------------------------------------------
(* Fixture texts the parser is run on *)

W_error == <<"e","R","r","O","r">>
W_warn  == <<"w","a","r","n">>
W_note  == <<"N","O","T","E">>
W_bad   == <<"b","a","d">>
SP      == <<" ">>

FixtureLines == {
    <<>>,                                                         \* empty line
    <<"f","n">>,                                                  \* code, no marker
    START \o SP \o W_error \o <<":"," ","m"," ","x">>,            \* //~ eRrOr: m x
    <<"f"," ">> \o START \o <<"^">> \o SP \o W_error \o <<"[","E","1","]">>,
    START \o <<"^","^">> \o W_warn \o <<":","m">>,                \* //~^^warn:m
    START \o <<"|">> \o SP \o W_note \o <<":"," "," ","m"," ">>,  \* //~| NOTE:  m_
    START \o <<"|">> \o W_warn \o <<"[","]">>,                    \* //~|warn[]
    START \o SP \o W_bad \o <<":"," ","m">>,                      \* unknown kind
    START,                                                        \* nothing after the marker
    START \o SP \o W_error \o <<":"," "," ">>,                    \* empty message
    START \o SP \o W_error \o <<" ","x",":"," ","m">>,            \* second word
    START \o SP \o W_note \o <<"[","E","1","]",":"," ","m">>,     \* text after [code]
    START \o <<"|">> \o W_note \o <<"[","E","1","]"," ">>,        \* blank after [code]
    START \o SP \o W_warn \o <<"[","E","1">>                      \* closing ] missing
}

RECURSIVE Join(_)
Join(ls) ==
    IF ls = <<>> THEN <<>>
    ELSE IF Len(ls) = 1 THEN ls[1]
    ELSE ls[1] \o <<"\n">> \o Join(Tail(ls))

Fixtures ==
    {Join(ls) : ls \in UNION {[1..k -> FixtureLines] : k \in 0..MaxLines}}

----------------------------------------------------------------------------
(* TestExpectation::parse as a state machine: one step per fixture line *)

\* the parser before it is given a file
ParseIdle ==
    /\ content = <<>>
    /\ lineno = 0
    /\ expected_msgs = <<>>
    /\ last_line_with_pattern = 0
    /\ ppc = "idle"
    /\ perr = None

\* no call of Pattern::matches / compare_messages under way
MatchIdle == pat = None /\ msg = None /\ matched = None
CompareIdle == expected = <<>> /\ got = <<>> /\ verdict = None
\* no call of parse_output under way
OutputIdle == output = <<>> /\ folded = 0 /\ state = None /\ normalized = None
\* no call of push_expected_errors under way
FlattenIdle ==
    decoded = None /\ work = <<>> /\ expected_errors = <<>> /\ call = None
\* the components that are not run together with the parser, the matcher or
\* the normalizer of a stream
\* no run under way
RunIdle ==
    /\ tests = <<>> /\ no_console_output = FALSE /\ rpc = "idle" /\ parsed = <<>>
    /\ status = None /\ passed_on = 0 /\ test_result = None /\ ran = <<>>
    /\ unwinding = FALSE /\ returned = None
\* no call of find_tests under way
FindIdle ==
    /\ cfail_path = None /\ visited = 0 /\ found = <<>> /\ fpc = "idle"
    /\ find_returned = None
OthersIdle == FlattenIdle /\ RunIdle /\ FindIdle

InitParse ==
    /\ MatchIdle
    /\ CompareIdle
    /\ OutputIdle
    /\ OthersIdle
    /\ content \in Fixtures
    /\ lineno = 0
    /\ expected_msgs = <<>>
    /\ last_line_with_pattern = 0
    /\ ppc = "open"
    /\ perr = None

\* lines 106-108: File::open / read_to_string
ReadFixture ==
    /\ ppc = "open"
    /\ \E ok \in BOOLEAN :
          IF ok THEN ppc' = "lines" /\ perr' = perr
                ELSE ppc' = "err" /\ perr' = Some(ErrIo)
    /\ UNCHANGED <<content, lineno, expected_msgs, last_line_with_pattern>>
    /\ UNCHANGED <<mvars, cvars, ovars, xvars>>

\* Parser::parse, one iteration of the loop over content.lines()
ParserStep ==
    /\ ppc = "lines"
    /\ lineno < Len(Lines(content))
    /\ LET n == lineno + 1
           r == ParseLine(expected_msgs, last_line_with_pattern, n, Lines(content)[n])
       IN /\ lineno' = n
          /\ IF r.tag = "Ok"
             THEN /\ ppc' = ppc
                  /\ perr' = perr
                  /\ IF r.val # None
                     THEN /\ last_line_with_pattern' = n
                          /\ expected_msgs' = Append(expected_msgs, r.val[1])
                     ELSE UNCHANGED <<last_line_with_pattern, expected_msgs>>
             ELSE /\ ppc' = IF r.tag = "Panic" THEN "panic" ELSE "err"
                  /\ perr' = IF r.tag = "Panic" THEN perr ELSE Some(r.val)
                  /\ UNCHANGED <<last_line_with_pattern, expected_msgs>>
    /\ UNCHANGED <<content, mvars, cvars, ovars, xvars>>

\* Parser::parse returns; TestExpectation::parse checks the pattern list
ParserFinish ==
    /\ ppc = "lines"
    /\ lineno = Len(Lines(content))
    /\ LET r == Expectation(expected_msgs) IN
          IF r.tag = "Ok" THEN ppc' = "ok" /\ perr' = perr
                          ELSE ppc' = "err" /\ perr' = Some(r.val)
    /\ UNCHANGED <<content, lineno, expected_msgs, last_line_with_pattern>>
    /\ UNCHANGED <<mvars, cvars, ovars, xvars>>

NextParse == ReadFixture \/ ParserStep \/ ParserFinish

SpecParse == InitParse /\ [][NextParse]_vars

----------------------------------------------------------------------------
(* Properties of the expectation parser *)

\* the line the parser consumed last (lineno >= 1)
CurLine == Lines(content)[lineno]
HasMarker(line) == Contains(line, START)
AfterMarker(line) == SliceFrom(line, Find(line, START)[1] + Len(START))
IsContinuation(line) ==
    HasMarker(line) /\ AfterMarker(line) # <<>> /\ AfterMarker(line)[1] = "|"
CaretCount(line) == TakeWhileCount(AfterMarker(line), {"^"})
\* the marker without its position prefix and the blanks before the kind token
FromKind(line) ==
    LET a == AfterMarker(line) IN
    TrimLeft(IF IsContinuation(line) THEN SliceFrom(a, 1)
             ELSE SliceFrom(a, CaretCount(line)))
KindToken(line) ==
    SubSeq(FromKind(line), 1, TakeWhileCount(FromKind(line), Alphabetic))
AfterKind(line) == SliceFrom(FromKind(line), Len(KindToken(line)))
\* the last consumed line carried a marker and the parser went on: it gave a pattern
Produced == lineno >= 1 /\ ppc \in {"lines", "ok"} /\ HasMarker(CurLine)
LastPattern == expected_msgs[Len(expected_msgs)]
MarkerFailed == lineno >= 1 /\ ppc = "err" /\ HasMarker(CurLine)

\* C4: a non-continuation marker with k carets on line n targets line n - k when
\* n - k >= 1 (its own line when k = 0), and is rejected with the invalid-offset
\* error whenever k >= n.
C4_CaretTarget ==
    (lineno >= 1 /\ HasMarker(CurLine) /\ ~IsContinuation(CurLine)) =>
        LET k == CaretCount(CurLine)
            n == lineno
        IN /\ (k >= n => ppc = "err" /\ perr = Some(ErrOffset(n)))
           /\ (k < n => perr # Some(ErrOffset(n)))
           /\ (k < n /\ Produced => LastPattern.line_num = n - k)

C4_Witness ==
    /\ Produced
    /\ ~IsContinuation(CurLine)
    /\ CaretCount(CurLine) = 2
    /\ lineno = 3
    /\ LastPattern.line_num = 1

\* C5: a continuation marker on line N is accepted iff line N-1 produced a
\* pattern; accepted, it targets the target line of that pattern; rejected,
\* parsing fails with the must-be-directly-preceded error of line N.
C5_Continuation ==
    (lineno >= 1 /\ IsContinuation(CurLine)) =>
        LET n == lineno
            prev == n >= 2 /\ HasMarker(Lines(content)[n - 1])
        IN /\ (~prev => ppc = "err" /\ perr = Some(ErrContinuation(n)))
           /\ (prev => perr # Some(ErrContinuation(n)))
           /\ (prev /\ Produced =>
                  /\ Len(expected_msgs) >= 2
                  /\ LastPattern.line_num =
                         expected_msgs[Len(expected_msgs) - 1].line_num)

C5_Witness ==
    /\ Produced
    /\ IsContinuation(CurLine)
    /\ lineno = 3
    /\ LastPattern.line_num # lineno - 1
    /\ LastPattern.line_num = expected_msgs[Len(expected_msgs) - 1].line_num

\* C6: a fixture without any marker fails with the no-error-patterns error, and
\* a returned TestExpectation never holds an empty pattern list.
C6_NonEmptyExpectation ==
    /\ (/\ ppc \in {"ok", "err", "panic"}
        /\ perr # Some(ErrIo)
        /\ \A i \in 1..Len(Lines(content)) : ~HasMarker(Lines(content)[i]))
       => (ppc = "err" /\ perr = Some(ErrNoPatterns))
    /\ (ppc = "ok" => expected_msgs # <<>>)

C6_Witness ==
    /\ ppc = "err"
    /\ perr = Some(ErrNoPatterns)
    /\ Len(Lines(content)) >= 2
    /\ \A i \in 1..Len(Lines(content)) : ~HasMarker(Lines(content)[i])

\* C7: a marker gives a pattern only if the kind token is followed by `:` and a
\* text, or by `[code]` with the first `]` as the last character of the marker;
\* the pattern then holds the Msg matcher resp. the Code matcher of that code.
C7_ExactlyOneForm ==
    Produced =>
        LET r == AfterKind(CurLine) IN
        /\ r # <<>>
        /\ \/ r[1] = ":" /\ LastPattern.matcher.tag = "Msg"
           \/ /\ r[1] = "["
              /\ Len(r) >= 2
              /\ r[Len(r)] = "]"
              /\ \A i \in 2..(Len(r) - 1) : r[i] # "]"
              /\ LastPattern.matcher = Code(SubSeq(r, 2, Len(r) - 1))

C7_Witness ==
    /\ Produced
    /\ AfterKind(CurLine) = <<"[", "E", "1", "]">>
    /\ LastPattern.matcher = Code(<<"E", "1">>)

\* the text after the colon of a `: <text>` marker
AfterColon(line) == SliceFrom(AfterKind(line), 1)
IsColonForm(line) ==
    HasMarker(line) /\ AfterKind(line) # <<>> /\ AfterKind(line)[1] = ":"
RejectedAsEmpty ==
    (/\ lineno >= 1
     /\ IsColonForm(CurLine)
     /\ Range(AfterColon(CurLine)) \subseteq Whitespace
     /\ FromStr(KindToken(CurLine)) # None
     /\ perr \notin {Some(ErrOffset(lineno)), Some(ErrContinuation(lineno))})
    => (ppc = "err" /\ perr = Some(ErrEmpty(lineno)))

\* C8 as stated: the Msg matcher is the text after the colon trimmed at both
\* ends, and an all-blank text is rejected as an empty pattern.
C8_TrimmedBothEnds ==
    /\ (Produced /\ IsColonForm(CurLine)) =>
           LastPattern.matcher = Msg(Trim(AfterColon(CurLine)))
    /\ RejectedAsEmpty

\* C8 amended: the Msg matcher is the text after the colon without its leading
\* whitespace, trailing whitespace kept; an all-blank text is rejected as an
\* empty pattern.
C8_TrimmedLeft ==
    /\ (Produced /\ IsColonForm(CurLine)) =>
           LET a == AfterColon(CurLine)
               t == LastPattern.matcher.val
           IN /\ LastPattern.matcher.tag = "Msg"
              /\ t # <<>>
              /\ t[1] \notin Whitespace
              /\ \E k \in 0..Len(a) :
                    /\ \A i \in 1..k : a[i] \in Whitespace
                    /\ t = SliceFrom(a, k)
    /\ RejectedAsEmpty

C8_Witness ==
    /\ Produced
    /\ IsColonForm(CurLine)
    /\ AfterColon(CurLine) = <<" ", " ", "m", " ">>
    /\ LastPattern.matcher = Msg(<<"m", " ">>)

\* C9: every parse failure produced for a marker carries the number of the
\* line the marker is on.
C9_ErrorsCarryLine ==
    MarkerFailed => perr[1].line = Some(lineno)

----------------------------------------------------------------------------
(* parse.rs: Pattern::matches; runner.rs: compare_messages *)

\* a Message as Pattern::matches reads it: kind, line_num, code (parse.rs
\* line 83) and msg (parse.rs line 86).  The struct of json.rs lines 19-29
\* declares kind, msg and line_num only; see Message below.
MessageWithCode(kind, code, text, line_num) ==
    [kind |-> kind, code |-> code, msg |-> text, line_num |-> line_num]

\* mutant: the line number is not compared
Matches_IgnoresLine(p, m) ==
    IF p.kind # m.kind THEN FALSE
    ELSE IF p.matcher.tag = "Code" /\ m.code # Some(p.matcher.val) THEN FALSE
    ELSE IF p.matcher.tag = "Msg" /\ ~Contains(m.msg, p.matcher.val) THEN FALSE
    ELSE TRUE

\* Pattern::matches
Matches(p, m) ==
    IF p.kind # m.kind THEN FALSE
    ELSE IF p.line_num # m.line_num THEN FALSE
    ELSE IF p.matcher.tag = "Code" /\ m.code # Some(p.matcher.val) THEN FALSE
    ELSE IF p.matcher.tag = "Msg" /\ ~Contains(m.msg, p.matcher.val) THEN FALSE
    ELSE TRUE

\* Iterator::next: Option of the first element
First(s) == IF s = <<>> THEN None ELSE Some(s[1])

\* the two errors of compare_messages: the format and its argument
ErrNotFound(p) ==
    [fmt |-> "message not found in compiler output: {:?}", arg |-> p]
ErrUnexpected(m) ==
    [fmt |-> "unexpected error or warning in compiler output (all errors and warnings must be matched by a pattern in the test): {:?}",
     arg |-> m]

\* mutant: only errors must be expected
MustBeExpected_ErrorsOnly(m) == m.kind = Some("Error")

\* compare_messages, line 30: the messages that must be expected
MustBeExpected(m) == m.kind = Some("Error") \/ m.kind = Some("Warning")

\* compare_messages, lines 21-22: expected.iter().find(..)
FirstUnmatched(exp, gt) ==
    First(SelectSeq(exp, LAMBDA p : ~\E i \in 1..Len(gt) : Matches(p, gt[i])))

\* compare_messages, lines 29-31: got.iter().filter(..).find(..)
FirstUnexpected(exp, gt) ==
    First(SelectSeq(SelectSeq(gt, MustBeExpected),
                    LAMBDA m : ~\E i \in 1..Len(exp) : Matches(exp[i], m)))

\* mutant: the scan of the actual messages comes first
CompareMessages_GotFirst(exp, gt) ==
    LET unmatched == FirstUnmatched(exp, gt)
        unexpected == FirstUnexpected(exp, gt)
    IN IF unexpected # None THEN Err(ErrUnexpected(unexpected[1]))
       ELSE IF unmatched # None THEN Err(ErrNotFound(unmatched[1]))
       ELSE Ok(<<>>)

\* compare_messages
CompareMessages(exp, gt) ==
    LET unmatched == FirstUnmatched(exp, gt)
        unexpected == FirstUnexpected(exp, gt)
    IN IF unmatched # None THEN Err(ErrNotFound(unmatched[1]))
       ELSE IF unexpected # None THEN Err(ErrUnexpected(unexpected[1]))
       ELSE Ok(<<>>)

----------------------------------------------------------------------------
(* Pattern::matches applied to one pattern and one message *)

T_a  == <<"a">>
T_ab == <<"a", "b">>
T_b  == <<"b">>
T_ba == <<"b", "a">>
C_E1 == <<"E", "1">>
C_E2 == <<"E", "2">>

\* Pattern is a public struct whose kind is an Option: the patterns of the
\* parser all have a kind, the others are built by hand
PatternKinds == {None, Some("Error"), Some("Warning"), Some("Note")}
MatchPatterns ==
    {Pattern(k, m, l) : k \in PatternKinds,
                        m \in {Code(C_E1), Msg(T_b), Msg(T_ab)},
                        l \in 1..MaxLineNum}
MatchMessages ==
    {MessageWithCode(k, c, t, l) : k \in PatternKinds \cup {Some("Help")},
                           c \in {None, Some(C_E1), Some(C_E2)},
                           t \in {T_a, T_ab, T_ba},
                           l \in 1..MaxLineNum}

InitMatch ==
    /\ ParseIdle
    /\ CompareIdle
    /\ OutputIdle
    /\ OthersIdle
    /\ pat \in {Some(p) : p \in MatchPatterns}
    /\ msg \in {Some(m) : m \in MatchMessages}
    /\ matched = None

CallMatches ==
    /\ pat # None
    /\ matched = None
    /\ matched' = Some(Matches(pat[1], msg[1]))
    /\ UNCHANGED <<pat, msg, pvars, cvars, ovars, xvars>>

NextMatch == CallMatches

SpecMatch == InitMatch /\ [][NextMatch]_vars

----------------------------------------------------------------------------
(* compare_messages applied to a list of patterns and a list of messages *)

\* Every message has the text "ab": a Code(E1) pattern matches the messages of
\* its kind and line that carry the code, a Msg("ba") pattern matches none.
CompareLines == 1..2
ComparePatterns ==
    {Pattern(k, Code(C_E1), l) : k \in {Some("Error"), Some("Warning"), Some("Note")},
                                 l \in CompareLines}
    \cup {Pattern(Some("Error"), Msg(T_ba), l) : l \in CompareLines}
CompareActual ==
    {MessageWithCode(k, c, T_ab, l) :
         k \in {None, Some("Error"), Some("Warning"), Some("Note")},
         c \in {None, Some(C_E1)},
         l \in CompareLines}

SeqsUpTo(S, n) == UNION {[1..k -> S] : k \in 0..n}

InitCompare ==
    /\ ParseIdle
    /\ MatchIdle
    /\ OutputIdle
    /\ OthersIdle
    /\ expected \in SeqsUpTo(ComparePatterns, MaxExpected)
    /\ got \in SeqsUpTo(CompareActual, MaxGot)
    /\ verdict = None

CallCompare ==
    /\ verdict = None
    /\ verdict' = Some(CompareMessages(expected, got))
    /\ UNCHANGED <<expected, got, pvars, mvars, ovars, xvars>>

NextCompare == CallCompare

SpecCompare == InitCompare /\ [][NextCompare]_vars

Unmatched(p) == \A j \in 1..Len(got) : ~Matches(p, got[j])
Unexpected(m) == \A i \in 1..Len(expected) : ~Matches(expected[i], m)

\* C1: compare passes exactly when every expected pattern matches some actual
\* message and every actual Error or Warning message matches some expected
\* pattern; an unmatched Note, Help, Suggestion or kindless message alone never
\* makes a violation, an unmatched Error always does.
C1_PassIffCompleteAndSound ==
    verdict # None =>
        /\ (verdict[1].tag = "Ok") <=>
               /\ \A i \in 1..Len(expected) : ~Unmatched(expected[i])
               /\ \A j \in 1..Len(got) :
                      got[j].kind \in {Some("Error"), Some("Warning")}
                          => ~Unexpected(got[j])
        /\ (\E j \in 1..Len(got) : got[j].kind = Some("Error") /\ Unexpected(got[j]))
               => verdict[1].tag = "Err"
        /\ (/\ \A i \in 1..Len(expected) : ~Unmatched(expected[i])
            /\ \A j \in 1..Len(got) :
                   Unexpected(got[j]) => got[j].kind \notin {Some("Error"), Some("Warning")})
               => verdict[1].tag = "Ok"

C1_Witness ==
    /\ verdict # None
    /\ verdict[1].tag = "Ok"
    /\ expected # <<>>
    /\ \E j \in 1..Len(got) : got[j].kind = Some("Note") /\ Unexpected(got[j])

\* C3: a violation names the first expected pattern that matches no actual
\* message if there is one, otherwise the first actual Error/Warning message
\* that matches no expected pattern.
C3_FirstViolation ==
    (verdict # None /\ verdict[1].tag = "Err") =>
        LET e == verdict[1].val IN
        IF \E i \in 1..Len(expected) : Unmatched(expected[i])
        THEN \E i \in 1..Len(expected) :
                /\ Unmatched(expected[i])
                /\ \A k \in 1..(i - 1) : ~Unmatched(expected[k])
                /\ e = ErrNotFound(expected[i])
        ELSE \E j \in 1..Len(got) :
                /\ got[j].kind \in {Some("Error"), Some("Warning")}
                /\ Unexpected(got[j])
                /\ \A k \in 1..(j - 1) :
                       ~(got[k].kind \in {Some("Error"), Some("Warning")} /\ Unexpected(got[k]))
                /\ e = ErrUnexpected(got[j])

C3_Witness ==
    /\ verdict # None
    /\ verdict[1].tag = "Err"
    /\ Len(got) = 2
    /\ got[1] # got[2]
    /\ \A i \in 1..Len(expected) : ~Unmatched(expected[i])
    /\ \A j \in 1..2 : got[j].kind \in {Some("Error"), Some("Warning")} /\ Unexpected(got[j])
    /\ verdict[1].val = ErrUnexpected(got[1])

----------------------------------------------------------------------------
(* json.rs: the diagnostic normalizer *)

\* struct Message (json.rs lines 19-29)
Message(line_num, kind, text) ==
    [line_num |-> line_num, kind |-> kind, msg |-> text]

\* struct DiagnosticCode, DiagnosticSpan, DiagnosticSpanMacroExpansion, Diagnostic
DiagnosticCode(code) == [code |-> code, explanation |-> None]
DiagnosticSpan(file_name, line_start, line_end, column_start, column_end, is_primary, label, suggested_replacement, expansion) ==
    [file_name |-> file_name, line_start |-> line_start, line_end |-> line_end,
     column_start |-> column_start, column_end |-> column_end,
     is_primary |-> is_primary, label |-> label,
     suggested_replacement |-> suggested_replacement, expansion |-> expansion]
DiagnosticSpanMacroExpansion(span, macro_decl_name) ==
    [span |-> span, macro_decl_name |-> macro_decl_name]
Diagnostic(message, code, level, spans, children) ==
    [message |-> message, code |-> code, level |-> level, spans |-> spans,
     children |-> children, rendered |-> None]

\* Path::new(a) == Path::new(b), for file names written without redundant separators
SamePath(a, b) == a = b

Digits == <<"0", "1", "2", "3", "4", "5", "6", "7", "8", "9">>

\* Display of a usize
RECURSIVE Decimal(_)
Decimal(n) ==
    IF n < 10 THEN <<Digits[n + 1]>>
    ELSE Decimal(n \div 10) \o <<Digits[(n % 10) + 1]>>

RECURSIVE Concat(_)
Concat(ss) == IF ss = <<>> THEN <<>> ELSE ss[1] \o Concat(Tail(ss))

\* push_expected_errors: the closure with_code
WithCode(diagnostic, span, text) ==
    LET located == Decimal(span.line_start) \o <<":">> \o Decimal(span.column_start)
                   \o <<":", " ">> \o Decimal(span.line_end) \o <<":">>
                   \o Decimal(span.column_end) \o <<":", " ">> \o text
    IN IF diagnostic.code # None
       THEN located \o <<" ", "[">> \o diagnostic.code[1].code \o <<"]">>
       ELSE located

InThisExpansionOf ==
    <<"i","n"," ","t","h","i","s"," ","e","x","p","a","n","s","i","o","n"," ","o","f"," ">>

\* push_backtrace: the messages it pushes
RECURSIVE PushBacktrace(_, _)
PushBacktrace(expansion, file_name) ==
    (IF SamePath(expansion.span.file_name, file_name)
     THEN <<Message(expansion.span.line_start, Some("Note"),
                    InThisExpansionOf \o expansion.macro_decl_name)>>
     ELSE <<>>)
    \o (IF expansion.span.expansion # None
        THEN PushBacktrace(expansion.span.expansion[1], file_name)
        ELSE <<>>)

\* push_expected_errors, lines 117-133: the spans the messages are reported at
SpansInThisFile(diagnostic, file_name) ==
    SelectSeq(diagnostic.spans, LAMBDA span : SamePath(span.file_name, file_name))
\* the last primary span instead of the first
PrimarySpans_LastWins(diagnostic, default_spans, file_name) ==
    LET primary == SelectSeq(SpansInThisFile(diagnostic, file_name),
                             LAMBDA span : span.is_primary)
    IN IF primary = <<>> THEN default_spans ELSE <<primary[Len(primary)]>>
PrimarySpans(diagnostic, default_spans, file_name) ==
    LET primary == SelectSeq(SpansInThisFile(diagnostic, file_name),
                             LAMBDA span : span.is_primary)
    IN IF primary = <<>> THEN default_spans ELSE <<primary[1]>>

\* mutant: every further line of the message is one line further down
MessageLineMessages_IncrementsLine(diagnostic, primary_spans) ==
    LET message_lines == Lines(diagnostic.message) IN
    Concat([k \in 1..Len(message_lines) |->
              [i \in 1..Len(primary_spans) |->
                  Message(primary_spans[i].line_start + (k - 1),
                          IF k = 1 THEN FromStr(diagnostic.level) ELSE None,
                          WithCode(diagnostic, primary_spans[i], message_lines[k]))]])

\* push_expected_errors, lines 169-189: the messages of the lines of the message
MessageLineMessages(diagnostic, primary_spans) ==
    LET np == Len(primary_spans)
        message_lines == Lines(diagnostic.message)
        first == IF message_lines # <<>>
                 THEN [i \in 1..np |->
                          Message(primary_spans[i].line_start,
                                  FromStr(diagnostic.level),
                                  WithCode(diagnostic, primary_spans[i], message_lines[1]))]
                 ELSE <<>>
        next == Concat([k \in 1..(Len(message_lines) - 1) |->
                          [i \in 1..np |->
                              Message(primary_spans[i].line_start, None,
                                      WithCode(diagnostic, primary_spans[i],
                                               message_lines[k + 1]))]])
    IN first \o next

\* push_expected_errors, lines 191-202: the messages of the suggestions
SuggestionMessages(primary_spans) ==
    Concat([i \in 1..Len(primary_spans) |->
              IF primary_spans[i].suggested_replacement # None
              THEN LET ls == Lines(primary_spans[i].suggested_replacement[1]) IN
                   [x \in 1..Len(ls) |->
                       Message(primary_spans[i].line_start + (x - 1),
                               Some("Suggestion"), ls[x])]
              ELSE <<>>])

\* push_expected_errors, lines 204-209: the notes of the macro backtrace
BacktraceMessages(primary_spans, file_name) ==
    Concat([i \in 1..Len(primary_spans) |->
              IF primary_spans[i].expansion # None
              THEN PushBacktrace(primary_spans[i].expansion[1], file_name)
              ELSE <<>>])

\* mutant: a note for every span of the file, labeled or not
LabelMessages_EverySpan(diagnostic, file_name) ==
    LET spans == SpansInThisFile(diagnostic, file_name)
    IN [i \in 1..Len(spans) |->
           Message(spans[i].line_start, Some("Note"),
                   IF spans[i].label # None THEN spans[i].label[1] ELSE <<>>)]

\* push_expected_errors, lines 211-219: the notes of the labels
LabelMessages(diagnostic, file_name) ==
    LET labeled == SelectSeq(SpansInThisFile(diagnostic, file_name),
                             LAMBDA span : span.label # None)
    IN [i \in 1..Len(labeled) |->
           Message(labeled[i].line_start, Some("Note"), labeled[i].label[1])]

\* push_expected_errors, lines 166-219: what one call pushes before it recurses
OwnMessages(diagnostic, primary_spans, file_name) ==
    MessageLineMessages(diagnostic, primary_spans)
    \o SuggestionMessages(primary_spans)
    \o BacktraceMessages(primary_spans, file_name)
    \o LabelMessages(diagnostic, file_name)

\* push_expected_errors: the messages it pushes, in order
RECURSIVE PushExpectedErrors(_, _, _)
PushExpectedErrors(diagnostic, default_spans, file_name) ==
    LET primary_spans == PrimarySpans(diagnostic, default_spans, file_name) IN
    OwnMessages(diagnostic, primary_spans, file_name)
    \o Concat([i \in 1..Len(diagnostic.children) |->
                 PushExpectedErrors(diagnostic.children[i], primary_spans, file_name)])

\* A line of the compiler's stderr is its first characters (head) and what
\* serde_json::from_str::<Diagnostic> makes of the whole line (json).
RawLine(head, json) == [head |-> head, json |-> json]
ErrJson == [fmt |-> "serde_json::Error"]

\* str::starts_with('{')
StartsWithBrace(line) == line.head # <<>> /\ line.head[1] = "{"

\* mutant: every line is handed to the decoder, and what decodes is flattened
JsonParseLine_DecodesAll(file_name, line) ==
    IF line.json.tag = "Ok"
    THEN Ok(PushExpectedErrors(line.json.val, <<>>, file_name))
    ELSE IF StartsWithBrace(line) THEN line.json ELSE Ok(<<>>)

\* json.rs parse_line
JsonParseLine(file_name, line) ==
    IF StartsWithBrace(line)
    THEN IF line.json.tag = "Ok"
         THEN Ok(PushExpectedErrors(line.json.val, <<>>, file_name))
         ELSE line.json
    ELSE Ok(<<>>)

\* mutant: a record that fails to decode is passed over
FoldStep_SkipsErrors(acc, result) ==
    IF acc.tag = "Ok" /\ result.tag = "Ok" THEN Ok(acc.val \o result.val) ELSE acc

\* parse_output: the closure of the fold
FoldStep(acc, result) ==
    IF acc.tag = "Ok"
    THEN IF result.tag = "Ok" THEN Ok(acc.val \o result.val) ELSE result
    ELSE acc

----------------------------------------------------------------------------
(* The streams parse_output is run on *)

TargetFile == "t.rs"
OtherFile == "u.rs"

L_error == <<"e","r","r","o","r">>
L_warning == <<"w","a","r","n","i","n","g">>
L_note == <<"n","o","t","e">>
L_ice == L_error \o <<":"," ","i","c","e">>

SpanAt(file_name, line, is_primary) ==
    DiagnosticSpan(file_name, line, line, 1, 2, is_primary, None, None, None)

\* one line, a code, one primary span
D_simple ==
    Diagnostic(<<"m">>, Some(DiagnosticCode(C_E1)), L_error,
               <<SpanAt(TargetFile, 1, TRUE)>>, <<>>)
\* two lines, a labeled secondary span, a primary span with a suggestion of two
\* lines and a macro expansion, a child without spans
D_multi ==
    Diagnostic(<<"a", "\n", "b">>, None, L_warning,
               <<DiagnosticSpan(TargetFile, 2, 2, 1, 2, FALSE, Some(<<"l">>), None, None),
                 DiagnosticSpan(TargetFile, 3, 3, 1, 2, TRUE, None,
                                Some(<<"x", "\n", "y">>),
                                Some(DiagnosticSpanMacroExpansion(
                                         SpanAt(TargetFile, 1, FALSE), <<"m", "!">>)))>>,
               <<Diagnostic(<<"n">>, None, L_note, <<>>, <<>>)>>)
\* a diagnostic of another file: no message
D_other ==
    Diagnostic(<<"o">>, None, L_error, <<SpanAt(OtherFile, 1, TRUE)>>,
               <<Diagnostic(<<"n">>, None, L_note, <<>>, <<>>)>>)
\* a level that is no MessageKind
D_ice ==
    Diagnostic(<<"i">>, None, L_ice, <<SpanAt(TargetFile, 2, TRUE)>>, <<>>)

RawLines == {
    RawLine(<<>>, Err(ErrJson)),                    \* empty line
    RawLine(<<"e", "r">>, Err(ErrJson)),            \* incidental text
    RawLine(<<" ", "{">>, Ok(D_simple)),            \* a record after a blank
    RawLine(<<"{", "}">>, Err(ErrJson)),            \* a record that does not decode
    RawLine(<<"{", "m">>, Ok(D_simple)),
    RawLine(<<"{", "m">>, Ok(D_multi)),
    RawLine(<<"{", "m">>, Ok(D_other)),
    RawLine(<<"{", "m">>, Ok(D_ice))
}

InitOutput ==
    /\ ParseIdle
    /\ MatchIdle
    /\ CompareIdle
    /\ OthersIdle
    /\ output \in SeqsUpTo(RawLines, MaxStream)
    /\ folded = 0
    /\ state = Some(Ok(<<>>))
    /\ normalized = None

\* parse_output: parse_line on the next line, folded into the accumulator
FoldLine ==
    /\ state # None
    /\ normalized = None
    /\ folded < Len(output)
    /\ folded' = folded + 1
    /\ state' = Some(FoldStep(state[1], JsonParseLine(TargetFile, output[folded + 1])))
    /\ UNCHANGED <<output, normalized, pvars, mvars, cvars, xvars>>

\* parse_output returns the accumulator
ReturnMessages ==
    /\ state # None
    /\ normalized = None
    /\ folded = Len(output)
    /\ normalized' = state
    /\ UNCHANGED <<output, folded, state, pvars, mvars, cvars, xvars>>

NextOutput == FoldLine \/ ReturnMessages

SpecOutput == InitOutput /\ [][NextOutput]_vars

\* C10: parse_output fails iff some line that begins with `{` does not decode;
\* otherwise it returns, in stream order, the messages of the records that
\* decode, and a line that does not begin with `{` gives no message, no error.
C10_FailsIffBadRecord ==
    normalized # None =>
        LET bad(i) == output[i].head # <<>> /\ output[i].head[1] = "{"
                      /\ output[i].json.tag = "Err"
            record(i) == output[i].head # <<>> /\ output[i].head[1] = "{"
                         /\ output[i].json.tag = "Ok"
        IN /\ normalized[1].tag = "Err" <=> \E i \in 1..Len(output) : bad(i)
           /\ normalized[1].tag = "Ok" =>
                  normalized[1].val =
                      Concat([i \in 1..Len(output) |->
                                 IF record(i)
                                 THEN PushExpectedErrors(output[i].json.val, <<>>, TargetFile)
                                 ELSE <<>>])

C10_Witness ==
    /\ normalized # None
    /\ normalized[1].tag = "Ok"
    /\ Len(output) = 3
    /\ output[1] = RawLine(<<"{", "m">>, Ok(D_multi))
    /\ output[2] = RawLine(<<" ", "{">>, Ok(D_simple))
    /\ output[3] = RawLine(<<"{", "m">>, Ok(D_simple))
    /\ Len(normalized[1].val) = 11
    /\ normalized[1].val[1].kind = Some("Warning")
    /\ normalized[1].val[11] =
           Message(1, Some("Error"),
                   <<"1", ":", "1", ":", " ", "1", ":", "2", ":", " ", "m", " ", "[", "E", "1", "]">>)

----------------------------------------------------------------------------
(* json.rs: one call of parse_line on a decodable record, call by call.
   The recursion of push_expected_errors is unfolded: work holds the calls
   still to be made, in the order in which the recursion makes them. *)

MaxSpans == 2
MaxChildren == 2

L_help == <<"h","e","l","p">>

\* spans: primary ones of the file, plain, with a suggestion of two lines, with
\* a macro expansion whose outer frame is in another file, with a label; a
\* primary one of another file; a labeled secondary one of the file
P_plain == SpanAt(TargetFile, 2, TRUE)
P_suggestion ==
    DiagnosticSpan(TargetFile, 3, 3, 1, 2, TRUE, None, Some(<<"x", "\n", "y">>), None)
P_expansion ==
    DiagnosticSpan(TargetFile, 4, 4, 1, 2, TRUE, None, None,
        Some(DiagnosticSpanMacroExpansion(
            DiagnosticSpan(OtherFile, 5, 5, 1, 2, FALSE, None, None,
                Some(DiagnosticSpanMacroExpansion(SpanAt(TargetFile, 1, FALSE),
                                                  <<"m", "!">>))),
            <<"o", "!">>)))
P_label == DiagnosticSpan(TargetFile, 5, 5, 1, 2, TRUE, Some(<<"p">>), None, None)
P_other == SpanAt(OtherFile, 1, TRUE)
S_label == DiagnosticSpan(TargetFile, 1, 1, 1, 2, FALSE, Some(<<"l">>), None, None)
FlattenSpans == {P_plain, P_suggestion, P_expansion, P_label, P_other, S_label}

\* children: without spans, with a span of its own and a child without spans,
\* with a span of another file only
N_plain == Diagnostic(<<"n">>, None, L_note, <<>>, <<>>)
H_own == Diagnostic(<<"h">>, None, L_help, <<SpanAt(TargetFile, 6, TRUE)>>, <<N_plain>>)
N_other == Diagnostic(<<"o">>, None, L_note, <<P_other>>, <<>>)
FlattenChildren == {N_plain, H_own, N_other}

FlattenMessages == {<<"m">>, <<"a", "\n", "b">>}
FlattenCodes == {None, Some(DiagnosticCode(C_E1))}
FlattenLevels == {L_error, L_ice}

FlattenRoots ==
    {Diagnostic(m, c, l, sp, ch) :
        m \in FlattenMessages, c \in FlattenCodes, l \in FlattenLevels,
        sp \in SeqsUpTo(FlattenSpans, MaxSpans),
        ch \in SeqsUpTo(FlattenChildren, MaxChildren)}

\* a call of push_expected_errors that is still to be made
Frame(diagnostic, default_spans) ==
    [diagnostic |-> diagnostic, default_spans |-> default_spans]

\* parse_line, lines 104-106: the record is decoded, expected_errors is empty,
\* push_expected_errors is about to be called with no default spans
InitFlatten ==
    /\ ParseIdle
    /\ MatchIdle
    /\ CompareIdle
    /\ OutputIdle
    /\ RunIdle
    /\ FindIdle
    /\ decoded \in {Some(d) : d \in FlattenRoots}
    /\ work = <<Frame(decoded[1], <<>>)>>
    /\ expected_errors = <<>>
    /\ call = None

\* push_expected_errors: one call, up to its recursive calls, which are put in
\* front of the calls that were already waiting
PushCall ==
    /\ work # <<>>
    /\ LET d == Head(work).diagnostic
           primary_spans == PrimarySpans(d, Head(work).default_spans, TargetFile)
           pushed == OwnMessages(d, primary_spans, TargetFile)
       IN /\ call' = Some([diagnostic |-> d,
                           default_spans |-> Head(work).default_spans,
                           primary_spans |-> primary_spans,
                           pushed |-> pushed])
          /\ expected_errors' = expected_errors \o pushed
          /\ work' = [i \in 1..Len(d.children) |-> Frame(d.children[i], primary_spans)]
                     \o Tail(work)
    /\ UNCHANGED <<decoded, pvars, mvars, cvars, ovars, rvars, dvars>>

NextFlatten == PushCall

SpecFlatten == InitFlatten /\ [][NextFlatten]_vars

\* the indexes of the spans of a diagnostic that are primary and of the file
PrimaryInFile(d) ==
    {i \in 1..Len(d.spans) : d.spans[i].is_primary /\ d.spans[i].file_name = TargetFile}

\* C11: a call selects the first primary span of the file among the spans of
\* its diagnostic, and only that one; without such a span it selects the spans
\* it inherited, which are none at the root; every child is flattened with the
\* selected spans as its inherited ones, so a child without spans has its
\* message at the line of the primary span of its parent.
C11_SelectedSpans ==
    /\ call = None => work = <<Frame(decoded[1], <<>>)>>
    /\ call # None =>
         LET c == call[1]
             d == c.diagnostic
         IN /\ Len(c.primary_spans) <= 1
            /\ PrimaryInFile(d) = {} => c.primary_spans = c.default_spans
            /\ \A i \in PrimaryInFile(d) :
                   (\A j \in PrimaryInFile(d) : i <= j) => c.primary_spans = <<d.spans[i]>>
            /\ Len(work) >= Len(d.children)
            /\ \A k \in 1..Len(d.children) :
                   work[k] = Frame(d.children[k], c.primary_spans)
            /\ (d.spans = <<>> /\ c.default_spans # <<>>) =>
                   /\ c.pushed # <<>>
                   /\ c.pushed[1].line_num = c.default_spans[1].line_start

\* a child without spans is flattened after a parent with two primary spans of
\* the file: its message is at the line of the first of the two
C11_Witness ==
    /\ call # None
    /\ decoded[1].spans = <<P_plain, P_suggestion>>
    /\ call[1].diagnostic = N_plain
    /\ call[1].default_spans = <<P_plain>>
    /\ call[1].pushed[1].line_num = 2

\* the kind of a severity: the five kinds, none for any other severity
SeverityKind(level) ==
    CASE level = L_error -> Some("Error")
      [] level = L_warning -> Some("Warning")
      [] level = L_note -> Some("Note")
      [] level = L_help -> Some("Help")
      [] OTHER -> None

\* the number of physical lines of a text that does not end with a line break
PhysicalLines(text) == 1 + Cardinality({i \in 1..Len(text) : text[i] = "\n"})

\* C12: a call whose diagnostic has a message of m >= 1 lines pushes first, for
\* each selected span s, m messages at line s.line_start, that of line k of
\* the message being number (k - 1) * (number of selected spans) + (index of s):
\* those of the first line have the kind of the severity, which is none for a
\* severity that is no kind, those of the other lines have no kind, and each
\* holds its line of the message.
C12_MessageLines ==
    call # None =>
      LET c == call[1]
          d == c.diagnostic
          np == Len(c.primary_spans)
          m == PhysicalLines(d.message)
      IN /\ m >= 1
         /\ Len(c.pushed) >= m * np
         /\ \A k \in 1..m : \A i \in 1..np :
               LET x == c.pushed[(k - 1) * np + i] IN
               /\ x.line_num = c.primary_spans[i].line_start
               /\ x.kind = (IF k = 1 THEN SeverityKind(d.level) ELSE None)
               /\ Contains(x.msg, Lines(d.message)[k])
         /\ \A n \in (m * np + 1)..Len(c.pushed) :
               c.pushed[n].kind \in {Some("Suggestion"), Some("Note")}

\* a message of two lines with a severity that is no kind: two messages without
\* kind, both at the line of the selected span
C12_Witness ==
    /\ call # None
    /\ call[1].diagnostic.message = <<"a", "\n", "b">>
    /\ call[1].diagnostic.level = L_ice
    /\ call[1].primary_spans = <<P_plain>>
    /\ Len(call[1].pushed) = 2
    /\ call[1].pushed[1].kind = None
    /\ call[1].pushed[2].line_num = 2

\* the code a message carries: struct Message has the fields line_num, kind
\* and msg, so a field code is looked for and none is found
CarriedCode(m) == IF "code" \in DOMAIN m THEN m.code ELSE None

\* C13: every message a call pushes, whether for a line of the message, a
\* suggestion, a macro backtrace or a label, carries the code of the diagnostic
\* of the call, and carries none when that diagnostic has none.
C13_MessagesCarryCode ==
    call # None =>
      LET c == call[1]
          code == IF c.diagnostic.code = None THEN None
                  ELSE Some(c.diagnostic.code[1].code)
      IN \A n \in 1..Len(c.pushed) : CarriedCode(c.pushed[n]) = code

\* parse_line has returned: no call of push_expected_errors is left
Flattened == call # None /\ work = <<>>

\* a diagnostic of one line without children, suggested replacements and
\* labeled secondary spans
PlainDiagnostic(d) ==
    /\ PhysicalLines(d.message) = 1
    /\ d.children = <<>>
    /\ \A i \in 1..Len(d.spans) :
          /\ d.spans[i].suggested_replacement = None
          /\ d.spans[i].is_primary \/ d.spans[i].label = None

\* C14, as stated: a single diagnostic of one line without children, without
\* suggested replacement and without labeled secondary spans is normalized to
\* exactly one message.
C14_ExactlyOne ==
    (Flattened /\ PlainDiagnostic(decoded[1])) => Len(expected_errors) = 1

\* C14, amended: the same when the diagnostic moreover has a primary span of
\* the target file and none of its spans has a macro expansion or a label.
C14_ExactlyOneWithPrimary ==
    ( /\ Flattened
      /\ PlainDiagnostic(decoded[1])
      /\ PrimaryInFile(decoded[1]) # {}
      /\ \A i \in 1..Len(decoded[1].spans) :
            /\ decoded[1].spans[i].expansion = None
            /\ decoded[1].spans[i].label = None )
    => Len(expected_errors) = 1

\* a primary span of the file and one of another file: one message, at line 2
C14_Witness ==
    /\ Flattened
    /\ decoded[1].message = <<"m">>
    /\ decoded[1].spans = <<P_other, P_plain>>
    /\ decoded[1].children = <<>>
    /\ Len(expected_errors) = 1
    /\ expected_errors[1].line_num = 2

----------------------------------------------------------------------------
(* lib.rs parse_and_run, runner.rs run and run_test, status.rs TestStatus *)

MaxFixtures == 2

\* the element of a set of one element; {e(x) : x \in {v}} is e with x bound to
\* the value of v, which is computed once
Only(S) == CHOOSE x \in S : TRUE

\* Parser::parse, lines 138-149: the loop over the lines, from line n on
RECURSIVE ParserParse(_, _, _, _)
ParserParse(lines, n, msgs, last) ==
    IF n > Len(lines) THEN Ok(msgs)
    ELSE Only({IF r.tag # "Ok" THEN r
               ELSE IF r.val # None
                    THEN ParserParse(lines, n + 1, Append(msgs, r.val[1]), n)
                    ELSE ParserParse(lines, n + 1, msgs, last) :
               r \in {ParseLine(msgs, last, n, lines[n])}})

\* TestExpectation::parse on the content of a file that can be read
TestExpectationParse(text) ==
    Only({IF patterns.tag = "Ok" THEN Expectation(patterns.val) ELSE patterns :
          patterns \in {Only({ParserParse(lines, 1, <<>>, 0) : lines \in {Lines(text)}})}})

\* parse_output: the fold over the lines of the output
RECURSIVE ParseOutputFrom(_, _, _)
ParseOutputFrom(acc, file_name, stream) ==
    IF stream = <<>> THEN acc
    ELSE Only({ParseOutputFrom(next, file_name, Tail(stream)) :
               next \in {FoldStep(acc, JsonParseLine(file_name, Head(stream)))}})
ParseOutput(file_name, stream) == ParseOutputFrom(Ok(<<>>), file_name, stream)

\* std::process::Output: the exit status and stderr, which is a sequence of
\* lines when it is UTF-8
Output(success, utf8, stderr) ==
    [success |-> success, utf8 |-> utf8, stderr |-> stderr]

\* the errors of a run
ErrSucceeded(path) ==
    [fmt |-> "compilation of compile-fail test {} succeeded", arg |-> path]
ErrWithOutput(e, msgs) ==
    [fmt |-> "{}\n\nrustc output:\n{:#?}", arg |-> <<e, msgs>>]
ErrObtain == [fmt |-> "Blueprint::obtain"]
ErrFailed(text, count) ==
    [fmt |-> "{}{} compile-fail tests failed", msg |-> text, count |-> count]
PanicWith(message) == [tag |-> "Panic", val |-> Some(message)]
NotUtf8 == "rustc output wasn't utf-8"
NotCalled == "TestStatus::into_global_result was not called"

\* what the compiler does on a test: it cannot be spawned, it exits with
\* status zero and a record that matches or that does not decode, its output
\* is not UTF-8, or it fails with a record that matches, that does not decode,
\* or that no pattern matches
RustcBehaviours ==
    {"no spawn", "succeeds", "succeeds, bad record", "not utf-8",
     "fails", "fails, bad record", "fails, other message"}

\* the record of an error at line 1 of a file, and one without kind at line 2
R_error(path) ==
    RawLine(<<"{", "m">>,
            Ok(Diagnostic(<<"m">>, Some(DiagnosticCode(C_E1)), L_error,
                          <<SpanAt(path, 1, TRUE)>>, <<>>)))
R_ice(path) ==
    RawLine(<<"{", "m">>,
            Ok(Diagnostic(<<"i">>, None, L_ice, <<SpanAt(path, 2, TRUE)>>, <<>>)))
R_undecodable == RawLine(<<"{", "}">>, Err(ErrJson))

\* Command::output on the command of a test
CmdOutput(test) ==
    CASE test.rustc = "no spawn" -> Err(ErrIo)
      [] test.rustc = "succeeds" -> Ok(Output(TRUE, TRUE, <<R_error(test.path)>>))
      [] test.rustc = "succeeds, bad record" -> Ok(Output(TRUE, TRUE, <<R_undecodable>>))
      [] test.rustc = "not utf-8" -> Ok(Output(FALSE, FALSE, <<>>))
      [] test.rustc = "fails" -> Ok(Output(FALSE, TRUE, <<R_error(test.path)>>))
      [] test.rustc = "fails, bad record" -> Ok(Output(FALSE, TRUE, <<R_undecodable>>))
      [] test.rustc = "fails, other message" -> Ok(Output(FALSE, TRUE, <<R_ice(test.path)>>))

\* mutant: the exit status is looked at after the output has been compared
RunTest_ComparesFirst(test, expect) ==
    LET output_ == CmdOutput(test) IN
    IF output_.tag = "Err" THEN output_
    ELSE IF ~output_.val.utf8 THEN PanicWith(NotUtf8)
    ELSE Only({IF msgs.tag = "Err" THEN msgs
               ELSE Only({IF c.tag = "Err" THEN Err(ErrWithOutput(c.val, msgs.val))
                          ELSE IF output_.val.success THEN Err(ErrSucceeded(test.path))
                          ELSE Ok(<<>>) :
                          c \in {CompareMessages(expect, msgs.val)}}) :
               msgs \in {ParseOutput(test.path, output_.val.stderr)}})

\* run_test
RunTest(test, expect) ==
    LET output_ == CmdOutput(test) IN
    IF output_.tag = "Err" THEN output_
    ELSE IF output_.val.success THEN Err(ErrSucceeded(test.path))
    ELSE IF ~output_.val.utf8 THEN PanicWith(NotUtf8)
    ELSE Only({IF msgs.tag = "Err" THEN msgs
               ELSE Only({IF c.tag = "Err" THEN Err(ErrWithOutput(c.val, msgs.val))
                          ELSE Ok(<<>>) :
                          c \in {CompareMessages(expect, msgs.val)}}) :
               msgs \in {ParseOutput(test.path, output_.val.stderr)}})

\* TestStatus::new; dropped records that the value has been dropped
TestStatus(quiet, num_tests) ==
    [out |-> [tag |-> IF quiet THEN "Quiet" ELSE "Console", written |-> <<>>],
     errors |-> <<>>, num_tests |-> num_tests, num_passed |-> 0, defused |-> FALSE,
     dropped |-> FALSE]

\* the writes of a method: fail = 0 when all of them succeed, else the number
\* of the write that fails; a write to the buffer of Out::Quiet cannot fail
FailPoints(st, chunks) == IF st.out.tag = "Quiet" THEN {0} ELSE 0..Len(chunks)
Write(st, chunks, fail) ==
    [st EXCEPT !.out.written =
        @ \o (IF fail = 0 THEN chunks ELSE SubSeq(chunks, 1, fail - 1))]

\* colored_status: the text written
ColoredStatus(pass) == IF pass THEN "ok" ELSE "FAILED"

\* what print_header, print_test and print_result write
HeaderChunks(st) ==
    << <<"running {} compile-fail test{}\n", st.num_tests,
         IF st.num_tests = 1 THEN "" ELSE "s">> >>
TestChunks(name, result) ==
    << <<"test {} ... ", name>>, <<ColoredStatus(result.tag = "Ok")>>, <<"\n">> >>
ResultChunks(st) ==
    << <<"test result: ">>, <<ColoredStatus(st.errors = <<>>)>>,
       <<". {} passed; {} failed\n", st.num_passed, Len(st.errors)>>, <<"\n">> >>
    \o Concat([i \in 1..Len(st.errors) |->
                 << <<"---- test {} ----\n", st.errors[i][1]>>,
                    <<"{}\n", st.errors[i][2]>>, <<"\n">> >>])

\* print_test, lines 92-96: the result is recorded
Record(st, name, result) ==
    IF result.tag = "Err"
    THEN [st EXCEPT !.errors = Append(@, <<name, result.val>>)]
    ELSE [st EXCEPT !.num_passed = @ + 1]

\* mutant: the number of tests is reported as the number of failed ones
GlobalResult_CountsTests(st) ==
    IF st.errors = <<>> THEN Ok(<<>>)
    ELSE Err(ErrFailed(IF st.out.tag = "Console" THEN <<>>
                       ELSE <<st.out.written, "\n\n">>,
                       st.num_tests))

\* into_global_result, lines 125-140: the summarizing result
GlobalResult(st) ==
    IF st.errors = <<>> THEN Ok(<<>>)
    ELSE Err(ErrFailed(IF st.out.tag = "Console" THEN <<>>
                       ELSE <<st.out.written, "\n\n">>,
                       Len(st.errors)))

\* mutant: the assertion is made while the thread is panicking, too
DropPanics_Always(st, panicking) == ~st.defused

\* <TestStatus as Drop>::drop: the assertion fails
DropPanics(st, panicking) == ~panicking /\ ~st.defused

\* the value a function leaves with when it drops the status on its way out
Leave(st, panicking, value) ==
    IF DropPanics(st, panicking) THEN PanicWith(NotCalled) ELSE value

\* the files a run is given, and what the compiler does on each
F_good == START \o SP \o W_error \o <<":", " ", "m">>
F_bad == START \o SP \o W_bad \o <<":", " ", "m">>
RunContents == {F_good, F_bad}
TestPaths == <<"a.rs", "b.rs", "c.rs", "d.rs">>
RunTests ==
    UNION {{[i \in 1..n |-> [path |-> TestPaths[i], content |-> c[i], rustc |-> r[i]]] :
               c \in [1..n -> RunContents], r \in [1..n -> RustcBehaviours]} :
           n \in 1..MaxFixtures}

\* parse_and_run is called
InitRun ==
    /\ ParseIdle
    /\ MatchIdle
    /\ CompareIdle
    /\ OutputIdle
    /\ FlattenIdle
    /\ FindIdle
    /\ tests \in RunTests
    /\ no_console_output \in BOOLEAN
    /\ rpc = "parse"
    /\ parsed = <<>>
    /\ status = None
    /\ passed_on = 0
    /\ test_result = None
    /\ ran = <<>>
    /\ unwinding = FALSE
    /\ returned = None

\* parse_and_run, lines 112-114: TestExpectation::parse on the next path; the
\* first error ends the collection and is returned
ParseTest ==
    /\ rpc = "parse"
    /\ Len(parsed) < Len(tests)
    /\ \E r \in {TestExpectationParse(tests[Len(parsed) + 1].content)} :
       IF r.tag = "Ok"
       THEN /\ parsed' = Append(parsed, r.val)
            /\ rpc' = IF Len(parsed) + 1 = Len(tests) THEN "setup" ELSE "parse"
            /\ UNCHANGED returned
       ELSE /\ returned' = Some(r)
            /\ rpc' = "done"
            /\ UNCHANGED parsed
    /\ UNCHANGED <<tests, no_console_output, status, passed_on, test_result, ran,
                   unwinding>>
    /\ UNCHANGED <<pvars, mvars, cvars, ovars, fvars, dvars>>

\* parse_and_run, lines 116-120: Blueprint::obtain and TempDir::new
Setup ==
    /\ rpc = "setup"
    /\ \E r \in {Ok(<<>>), Err(ErrObtain), Err(ErrIo)} :
          IF r.tag = "Ok" THEN rpc' = "run" /\ UNCHANGED returned
          ELSE rpc' = "done" /\ returned' = Some(r)
    /\ UNCHANGED <<tests, no_console_output, parsed, status, passed_on, test_result,
                   ran, unwinding>>
    /\ UNCHANGED <<pvars, mvars, cvars, ovars, fvars, dvars>>

\* runner::run, lines 42-43: TestStatus::new and print_header; on an error of
\* print_header run returns it and the status is dropped
PrintHeader ==
    /\ rpc = "run"
    /\ LET st == TestStatus(no_console_output, Len(tests)) IN
       \E fail \in FailPoints(st, HeaderChunks(st)) :
          LET written == Write(st, HeaderChunks(st), fail) IN
          IF fail = 0
          THEN /\ status' = Some(written)
               /\ rpc' = "loop"
               /\ UNCHANGED returned
          ELSE /\ status' = Some([written EXCEPT !.dropped = TRUE])
               /\ rpc' = "done"
               /\ returned' = Some(Leave(written, unwinding, Err(ErrIo)))
    /\ UNCHANGED <<tests, no_console_output, parsed, passed_on, test_result, ran,
                   unwinding>>
    /\ UNCHANGED <<pvars, mvars, cvars, ovars, fvars, dvars>>

\* runner::run, line 46: run_test on the next test; when it panics the stack
\* is unwound and the status is dropped
CallRunTest ==
    /\ rpc = "loop"
    /\ test_result = None
    /\ passed_on < Len(tests)
    /\ \E r \in {RunTest(tests[passed_on + 1], parsed[passed_on + 1])} :
       /\ ran' = Append(ran, passed_on + 1)
       /\ IF r.tag = "Panic"
          THEN /\ unwinding' = TRUE
               /\ status' = Some([status[1] EXCEPT !.dropped = TRUE])
               /\ returned' = Some(Leave(status[1], TRUE, r))
               /\ rpc' = "done"
               /\ UNCHANGED test_result
          ELSE /\ test_result' = Some(r)
               /\ UNCHANGED <<unwinding, status, returned, rpc>>
    /\ UNCHANGED <<tests, no_console_output, parsed, passed_on>>
    /\ UNCHANGED <<pvars, mvars, cvars, ovars, fvars, dvars>>

\* runner::run, line 46: print_test on the name of the test and its result;
\* on an error of a write run returns it and the status is dropped
PrintTest ==
    /\ rpc = "loop"
    /\ test_result # None
    /\ LET name == tests[passed_on + 1].path
           chunks == TestChunks(name, test_result[1])
       IN \E fail \in FailPoints(status[1], chunks) :
             LET written == Write(status[1], chunks, fail) IN
             IF fail = 0
             THEN /\ status' = Some(Record(written, name, test_result[1]))
                  /\ passed_on' = passed_on + 1
                  /\ rpc' = IF passed_on + 1 = Len(tests) THEN "result" ELSE "loop"
                  /\ UNCHANGED returned
             ELSE /\ status' = Some([written EXCEPT !.dropped = TRUE])
                  /\ rpc' = "done"
                  /\ returned' = Some(Leave(written, unwinding, Err(ErrIo)))
                  /\ UNCHANGED passed_on
    /\ test_result' = None
    /\ UNCHANGED <<tests, no_console_output, parsed, ran, unwinding>>
    /\ UNCHANGED <<pvars, mvars, cvars, ovars, fvars, dvars>>

\* runner::run, line 49: print_result
PrintResult ==
    /\ rpc = "result"
    /\ \E fail \in FailPoints(status[1], ResultChunks(status[1])) :
          LET written == Write(status[1], ResultChunks(status[1]), fail) IN
          IF fail = 0
          THEN /\ status' = Some(written)
               /\ rpc' = "finalize"
               /\ UNCHANGED returned
          ELSE /\ status' = Some([written EXCEPT !.dropped = TRUE])
               /\ rpc' = "done"
               /\ returned' = Some(Leave(written, unwinding, Err(ErrIo)))
    /\ UNCHANGED <<tests, no_console_output, parsed, passed_on, test_result, ran,
                   unwinding>>
    /\ UNCHANGED <<pvars, mvars, cvars, ovars, fvars, dvars>>

\* runner::run, line 50: into_global_result, which defuses the status, drops it
\* and returns the summarizing result
IntoGlobalResult ==
    /\ rpc = "finalize"
    /\ LET defused == [status[1] EXCEPT !.defused = TRUE] IN
       /\ status' = Some([defused EXCEPT !.dropped = TRUE])
       /\ returned' = Some(Leave(defused, unwinding, GlobalResult(defused)))
    /\ rpc' = "done"
    /\ UNCHANGED <<tests, no_console_output, parsed, passed_on, test_result, ran,
                   unwinding>>
    /\ UNCHANGED <<pvars, mvars, cvars, ovars, fvars, dvars>>

NextRun ==
    \/ ParseTest
    \/ Setup
    \/ PrintHeader
    \/ CallRunTest
    \/ PrintTest
    \/ PrintResult
    \/ IntoGlobalResult

SpecRun == InitRun /\ [][NextRun]_vars

\* the tests print_test has recorded a failure for
Failed == {i \in 1..passed_on : RunTest(tests[i], parsed[i]).tag = "Err"}

\* the names the status holds an error for
ErrorNames(st) == {st.errors[k][1] : k \in 1..Len(st.errors)}

\* C15: into_global_result returns Ok exactly when no recorded result was a
\* failure; otherwise it returns an error whose count is the number of failed
\* tests and whose text before the count is, with Config.no_console_output,
\* the buffered report, which names every failed test, and else empty.
C15_GlobalResult ==
    (status # None /\ status[1].defused) =>
       /\ returned # None
       /\ returned[1] = Ok(<<>>) <=> Failed = {}
       /\ Failed # {} =>
            /\ returned[1].tag = "Err"
            /\ returned[1].val.fmt = "{}{} compile-fail tests failed"
            /\ returned[1].val.count = Cardinality(Failed)
            /\ no_console_output =>
                 /\ returned[1].val.msg = <<status[1].out.written, "\n\n">>
                 /\ \A i \in Failed : \E n \in 1..Len(status[1].out.written) :
                       status[1].out.written[n] = <<"---- test {} ----\n", tests[i].path>>
            /\ ~no_console_output => returned[1].val.msg = <<>>

\* two tests are recorded without console output, the first passes and the
\* second fails: the error counts one failed test
C15_Witness ==
    /\ status # None
    /\ status[1].defused
    /\ no_console_output
    /\ passed_on = 2
    /\ Failed = {2}
    /\ returned[1].tag = "Err"
    /\ returned[1].val.count = 1

ParseFails(i) == TestExpectationParse(tests[i].content).tag = "Err"
LocalFailure(i) ==
    \/ ParseFails(i)
    \/ RunTest(tests[i], TestExpectationParse(tests[i].content).val).tag = "Err"

\* every compiler is spawned, fails, and writes UTF-8
LocalFailuresOnly ==
    \A i \in 1..Len(tests) :
        tests[i].rustc \in {"fails", "fails, bad record", "fails, other message"}

\* C17: in a run whose only errors are those of its tests (a file that does not
\* parse, output that does not decode, messages that do not match), run_test is
\* called on every test, every test is recorded, and the recorded failures are
\* those of the tests with such an error.
C17_LocalErrorsRecorded ==
    ( /\ returned # None
      /\ LocalFailuresOnly
      /\ returned[1] \notin {Err(ErrObtain), Err(ErrIo), PanicWith(NotCalled)} )
    => /\ ran = [i \in 1..Len(tests) |-> i]
       /\ status # None
       /\ passed_on = Len(tests)
       /\ ErrorNames(status[1]) = {tests[i].path : i \in {j \in 1..Len(tests) : LocalFailure(j)}}
       /\ status[1].num_passed = Cardinality({j \in 1..Len(tests) : ~LocalFailure(j)})

\* C18: when Blueprint::obtain fails no test is run and no status exists; when
\* the compiler of a test cannot be spawned, that test is the last one run_test
\* is called on, and no failure is recorded for it.
C18_CollaboratorErrorAborts ==
    /\ returned = Some(Err(ErrObtain)) => (ran = <<>> /\ status = None)
    /\ \A k \in 1..Len(ran) :
          CmdOutput(tests[ran[k]]).tag = "Err" =>
             /\ k = Len(ran)
             /\ status # None => tests[ran[k]].path \notin ErrorNames(status[1])

\* the compiler of test i is spawned and exits with status zero
ExitsWithZero(i) ==
    CmdOutput(tests[i]).tag = "Ok" /\ CmdOutput(tests[i]).val.success

\* C19: for a test whose compiler exits with status zero run_test returns the
\* error that the compilation succeeded, whatever the patterns and the output
\* are, and print_test records that error, and no other, for the test.
C19_SuccessIsFailure ==
    \A i \in 1..Len(ran) :
       ExitsWithZero(i) =>
          /\ (i = passed_on + 1 /\ test_result # None) =>
                test_result[1] = Err(ErrSucceeded(tests[i].path))
          /\ i <= passed_on =>
                /\ \E k \in 1..Len(status[1].errors) :
                      status[1].errors[k] = <<tests[i].path, ErrSucceeded(tests[i].path)>>
                /\ \A k \in 1..Len(status[1].errors) :
                      status[1].errors[k][1] = tests[i].path =>
                         status[1].errors[k][2] = ErrSucceeded(tests[i].path)

\* the compiler exits with status zero after writing a record that matches
\* the pattern of the test: the failure recorded is that the compilation
\* succeeded
C19_Witness ==
    /\ status # None
    /\ passed_on >= 1
    /\ tests[1].content = F_good
    /\ tests[1].rustc = "succeeds"
    /\ status[1].errors[1] = <<"a.rs", ErrSucceeded("a.rs")>>

----------------------------------------------------------------------------
(* lib.rs find_tests: one step per directory entry *)

MaxEntries == 3

\* Path::extension of a file name: the part after the last dot, unless there
\* is no dot or the only dot is the first character
Extension(name) ==
    LET dots == {i \in 1..Len(name) : name[i] = "."} IN
    IF dots = {} THEN None
    ELSE LET last == CHOOSE i \in dots : \A j \in dots : j <= i IN
         IF last = 1 THEN None ELSE Some(SubSeq(name, last + 1, Len(name)))

RS == <<"r", "s">>

\* an item of the iterator of read_dir: an error, or an entry with its name,
\* its file type and whether its file can be opened and read
DirEntry(ok, name, file_type, readable) ==
    [ok |-> ok, name |-> name, file_type |-> file_type, readable |-> readable]

DirEntries == {
    DirEntry(TRUE, <<"a", ".", "r", "s">>, "file", TRUE),
    DirEntry(TRUE, <<"b", ".", "r", "s">>, "file", TRUE),
    DirEntry(TRUE, <<".", "g", "i", "t", "k", "e", "e", "p">>, "file", TRUE),
    DirEntry(TRUE, <<"n", ".", "t", "x", "t">>, "file", TRUE),
    DirEntry(TRUE, <<"d", ".", "r", "s">>, "dir", TRUE),
    DirEntry(TRUE, <<"u", ".", "r", "s">>, "file", FALSE),
    DirEntry(FALSE, <<>>, "file", FALSE)
}

\* the listings of a directory: no entry twice
Listings ==
    {l \in SeqsUpTo(DirEntries, MaxEntries) :
        \A i \in 1..Len(l) : \A j \in 1..Len(l) : i # j => l[i] # l[j]}

ErrOpen == [fmt |-> "couldn't open {}: {}"]
ErrUnsupported(name) ==
    [fmt |-> "unsupported file type of compile-fail test {}: {:?}", arg |-> name]
ErrNoTest == [fmt |-> "no compile-fail test found in {}"]

\* find_tests is called on a directory that exists or not
InitFind ==
    /\ ParseIdle
    /\ MatchIdle
    /\ CompareIdle
    /\ OutputIdle
    /\ FlattenIdle
    /\ RunIdle
    /\ cfail_path \in {None} \cup {Some(l) : l \in Listings}
    /\ visited = 0
    /\ found = <<>>
    /\ fpc = "read_dir"
    /\ find_returned = None

\* find_tests, lines 75-76: fs::read_dir
ReadDir ==
    /\ fpc = "read_dir"
    /\ IF cfail_path = None
       THEN fpc' = "done" /\ find_returned' = Some(Err(ErrOpen))
       ELSE fpc' = "entries" /\ UNCHANGED find_returned
    /\ UNCHANGED <<cfail_path, visited, found>>
    /\ UNCHANGED <<pvars, mvars, cvars, ovars, fvars, rvars>>

\* find_tests, lines 78-98: the body of the loop on the next entry
VisitEntry ==
    /\ fpc = "entries"
    /\ visited < Len(cfail_path[1])
    /\ LET entry == cfail_path[1][visited + 1] IN
       /\ visited' = visited + 1
       /\ IF ~entry.ok
          THEN fpc' = "done" /\ find_returned' = Some(Err(ErrIo)) /\ UNCHANGED found
          ELSE IF Extension(entry.name) # Some(RS)
          THEN fpc' = "after" /\ UNCHANGED <<find_returned, found>>
          ELSE IF entry.file_type # "file"
          THEN /\ fpc' = "done"
               /\ find_returned' = Some(Err(ErrUnsupported(entry.name)))
               /\ UNCHANGED found
          ELSE IF ~entry.readable
          THEN fpc' = "done" /\ find_returned' = Some(Err(ErrIo)) /\ UNCHANGED found
          ELSE /\ found' = Append(found, entry.name)
               /\ UNCHANGED <<fpc, find_returned>>
    /\ UNCHANGED cfail_path
    /\ UNCHANGED <<pvars, mvars, cvars, ovars, fvars, rvars>>

\* find_tests, lines 103-107: after the loop, which the last entry or the
\* break has ended
ReturnTests ==
    /\ \/ fpc = "after"
       \/ fpc = "entries" /\ visited = Len(cfail_path[1])
    /\ fpc' = "done"
    /\ find_returned' = Some(IF found = <<>> THEN Err(ErrNoTest) ELSE Ok(found))
    /\ UNCHANGED <<cfail_path, visited, found>>
    /\ UNCHANGED <<pvars, mvars, cvars, ovars, fvars, rvars>>

NextFind == ReadDir \/ VisitEntry \/ ReturnTests

SpecFind == InitFind /\ [][NextFind]_vars

\* the names of the entries of a listing that have the extension rs
Fixtures_rs(listing) ==
    LET rs == SelectSeq(listing, LAMBDA e : e.ok /\ Extension(e.name) = Some(RS))
    IN [i \in 1..Len(rs) |-> rs[i].name]

\* C20: find_tests fails when the directory cannot be read and when none of its
\* entries has the extension rs; when it succeeds it returns the entries with
\* the extension rs, all of them and in order, and at least one; and it
\* succeeds when every entry can be read and those with the extension rs are
\* readable files and are at least one, whatever other entries lie between.
C20_FindsAllFixtures ==
    find_returned # None =>
       /\ cfail_path = None => find_returned[1].tag = "Err"
       /\ cfail_path # None =>
            LET listing == cfail_path[1] IN
            /\ Fixtures_rs(listing) = <<>> => find_returned[1].tag = "Err"
            /\ find_returned[1].tag = "Ok" =>
                  /\ find_returned[1].val = Fixtures_rs(listing)
                  /\ find_returned[1].val # <<>>
            /\ ( /\ Fixtures_rs(listing) # <<>>
                 /\ \A i \in 1..Len(listing) :
                       /\ listing[i].ok
                       /\ Extension(listing[i].name) = Some(RS) =>
                             (listing[i].file_type = "file" /\ listing[i].readable) )
               => find_returned[1] = Ok(Fixtures_rs(listing))

----------------------------------------------------------------------------
(* The order of the steps of a run, and the ways runner::run is left *)

\* C21: the tests are gone through one at a time: the file of a test is parsed
\* only when run_test has been called on every test before it, and run_test is
\* called on the tests in their order, each after its file has been parsed.
C21_OneFixtureAtATime ==
    /\ \A i \in 2..Len(parsed) : \E k \in 1..Len(ran) : ran[k] = i - 1
    /\ \A k \in 1..Len(ran) : ran[k] = k /\ k <= Len(parsed)

\* C22: a status that has been dropped has been defused by into_global_result
\* before, so that the assertion of its drop has not failed.
C22_FinalizedBeforeDrop ==
    (status # None /\ status[1].dropped) =>
       /\ status[1].defused
       /\ returned # Some(PanicWith(NotCalled))

\* the part of the current line after the kind has an opening bracket and no
\* closing one
UnclosedCode(line) ==
    /\ HasMarker(line)
    /\ AfterKind(line) # <<>>
    /\ AfterKind(line)[1] = "["
    /\ \A i \in 1..Len(AfterKind(line)) : AfterKind(line)[i] # "]"

\* C23: on a line with a marker parse_line returns a pattern or an error and
\* does not panic; a marker whose code has no closing bracket gives an error.
C23_NeverAborts ==
    (lineno >= 1 /\ HasMarker(CurLine)) =>
       /\ ppc # "panic"
       /\ UnclosedCode(CurLine) => (ppc = "err" /\ perr # None)

====
